---- MODULE Spec2Model ----
(***************************************************************************)
(* Complaint-triage pipeline of the AI Smart Campus Assistant:             *)
(*   ai_module/categorizer.py         ComplaintCategorizer                 *)
(*   ai_module/sentiment_analyzer.py  SentimentAnalyzer                    *)
(*   ai_module/predictor.py           ResolutionTimePredictor              *)
(*                                                                         *)
(* Number representation.  Python floats are modelled by exact rationals:  *)
(*   - a confidence is a pair <<num, den>> (den > 0), compared by cross    *)
(*     multiplication (RatLeq, RatEq);                                     *)
(*   - polarity, subjectivity and urgency are integers in hundredths;      *)
(*   - priority multipliers and workload_factor are integers in tenths;    *)
(*   - the variance draw is an integer in thousandths.                     *)
(* A complaint text is modelled by the sequence of its words (the result   *)
(* of replacing punctuation by spaces and splitting); lower-casing, the    *)
(* stop-word and length filters and stemming are computed on those words.  *)
(***************************************************************************)
EXTENDS Integers, Sequences, FiniteSets, TLC

VARIABLES workload_factor, last_pending, call, thread

vars == <<workload_factor, last_pending, call, thread>>

(***************************************************************************)
(* Bounds of the model.                                                    *)
(***************************************************************************)
\* longest complaint text given to the categorizer, in words
MaxWords == 3
\* longest complaint text given to the sentiment analyzer, in words
MaxUrgentWords == 4
\* top_n ranges over -MaxTopN .. MaxTopN
MaxTopN == 3
\* the variance draw takes the values 0.8 + 0.4 * k / VarianceSteps
VarianceSteps == 4
\* longest complaint history given to get_category_statistics
MaxHistory == 2

(***************************************************************************)
(* Python values.                                                          *)
(***************************************************************************)
None == "<None>"

Truthy(s) == s # None /\ s # ""

Min(a, b) == IF a <= b THEN a ELSE b

Max(a, b) == IF a >= b THEN a ELSE b

\* rationals <<num, den>> with den > 0
RatLeq(p, q) == p[1] * q[2] <= q[1] * p[2]

RatEq(p, q) == p[1] * q[2] = q[1] * p[2]

RatAdd(p, q) == <<p[1] * q[2] + q[1] * p[2], p[2] * q[2]>>

(***************************************************************************)
(* categorizer.py                                                          *)
(***************************************************************************)
\* declaration order of the keys of category_keywords
Categories ==
    <<"IT Issues", "Hostel Management", "Academics", "Administration",
      "Library", "Sports & Recreation", "Other">>

CategorySet == {Categories[i] : i \in 1..Len(Categories)}

\* An excerpt of each category's keyword list (the first keywords of each
\* list and those the vocabulary below can hit); 'Other' has none.
category_keywords(c) ==
    CASE c = "IT Issues"           -> {"internet", "wifi", "network", "computer"}
      [] c = "Hostel Management"   -> {"hostel", "room", "accommodation", "mess"}
      [] c = "Academics"           -> {"exam", "test", "marks", "grades"}
      [] c = "Administration"      -> {"certificate", "document", "fee", "payment"}
      [] c = "Library"             -> {"library", "book", "reference", "journal"}
      [] c = "Sports & Recreation" -> {"sports", "playground", "field", "gym"}
      [] OTHER                     -> {}

\* words a complaint text is made of
Vocabulary ==
    {"WiFi", "hostel", "exams", "fee", "Library", "the", "pc", "banana"}

\* str.lower
Lower(w) ==
    CASE w = "WiFi"    -> "wifi"
      [] w = "Library" -> "library"
      [] w = "URGENT"  -> "urgent"
      [] OTHER         -> w

\* len(token)
TokenLen(w) ==
    CASE w = "pc"  -> 2
      [] w \in {"the", "fee", "not"} -> 3
      [] OTHER     -> 4

\* stopwords.words('english'), the members the vocabulary can produce
stop_words == {"the", "not"}

\* PorterStemmer.stem on the words of the vocabulary and of the keyword
\* excerpt: plural -s removed, -e removed after a long stem, y -> i, and the
\* suffixes -er, -ion, -ate, -ment stripped
Stem(w) ==
    CASE w = "exams"         -> "exam"
      [] w = "library"       -> "librari"
      [] w = "computer"      -> "comput"
      [] w = "accommodation" -> "accommod"
      [] w = "marks"         -> "mark"
      [] w = "grades"        -> "grade"
      [] w = "certificate"   -> "certif"
      [] w = "payment"       -> "payment"
      [] w = "reference"     -> "refer"
      [] w = "sports"        -> "sport"
      [] OTHER               -> w

Texts(n) == UNION {[1..k -> Vocabulary] : k \in 0..n}

RECURSIVE preprocess_text(_)
preprocess_text(text) ==
    IF text = <<>> THEN <<>>
    ELSE LET token == Lower(Head(text))
             rest  == preprocess_text(Tail(text))
         IN  IF token \notin stop_words /\ TokenLen(token) > 2
             THEN <<Stem(token)>> \o rest
             ELSE rest

RECURSIVE CountIn(_, _)
CountIn(tokens, S) ==
    IF tokens = <<>> THEN 0
    ELSE (IF Head(tokens) \in S THEN 1 ELSE 0) + CountIn(Tail(tokens), S)

stemmed_keywords(c) == {Stem(Lower(kw)) : kw \in category_keywords(c)}

calculate_category_scores(tokens) ==
    [c \in CategorySet |-> CountIn(tokens, stemmed_keywords(c))]

RECURSIVE SumOver(_, _)
SumOver(scores, cats) ==
    IF cats = <<>> THEN 0 ELSE scores[Head(cats)] + SumOver(scores, Tail(cats))

\* sum(scores.values())
SumScores(scores) == SumOver(scores, Categories)

\* max(scores.values())
MaxScore(scores) ==
    CHOOSE m \in {scores[c] : c \in CategorySet} :
        \A c \in CategorySet : scores[c] <= m

\* mutant: a later category with an equal score replaces the earlier one
RECURSIVE FirstMax_LastWins(_, _)
FirstMax_LastWins(scores, cats) ==
    IF Len(cats) = 1 THEN Head(cats)
    ELSE LET best == FirstMax_LastWins(scores, Tail(cats))
         IN  IF scores[Head(cats)] > scores[best] THEN Head(cats) ELSE best

\* max(cats, key=scores.get): the first of cats, in order, with the largest score
RECURSIVE FirstMax(_, _)
FirstMax(scores, cats) ==
    IF Len(cats) = 1 THEN Head(cats)
    ELSE LET best == FirstMax(scores, Tail(cats))
         IN  IF scores[Head(cats)] >= scores[best] THEN Head(cats) ELSE best

\* mutant: the cap of line 163 is missing
CapConfidence_NoCap(conf) == conf

\* min(confidence, 0.99)
CapConfidence(conf) == IF RatLeq(conf, <<99, 100>>) THEN conf ELSE <<99, 100>>

\* mutant: any non-empty manual category is accepted
ValidManualCategory_AnyString(manual_category) == Truthy(manual_category)

\* the guard of line 141
ValidManualCategory(manual_category) ==
    Truthy(manual_category) /\ manual_category \in CategorySet

\* mutant: the early return of lines 153-155 is missing
InferCategory_NoZeroCase(complaint_text) ==
    LET tokens         == preprocess_text(complaint_text)
        scores         == calculate_category_scores(tokens)
        max_score      == MaxScore(scores)
        best_category  == FirstMax(scores, Categories)
        total_keywords == SumScores(scores)
        confidence     == IF total_keywords > 0
                          THEN <<max_score, total_keywords>>
                          ELSE <<1, 2>>
    IN  <<best_category, CapConfidence(confidence)>>

\* the inference of lines 144-165
InferCategory(complaint_text) ==
    LET tokens    == preprocess_text(complaint_text)
        scores    == calculate_category_scores(tokens)
        max_score == MaxScore(scores)
    IN  IF max_score = 0 THEN <<"Other", <<1, 2>>>>
        ELSE LET best_category  == FirstMax(scores, Categories)
                 total_keywords == SumScores(scores)
                 confidence     == IF total_keywords > 0
                                   THEN <<max_score, total_keywords>>
                                   ELSE <<1, 2>>
             IN  <<best_category, CapConfidence(confidence)>>

\* mutant: the manual category is never looked at
categorize_NoOverride(complaint_text, manual_category) ==
    InferCategory(complaint_text)


categorize(complaint_text, manual_category) ==
    IF ValidManualCategory(manual_category)
    THEN <<manual_category, <<95, 100>>>>
    ELSE InferCategory(complaint_text)

\* mutant: the sort of line 175 is missing
SortedByScore_Unsorted(scores, cats) == cats

\* sorted(items, key=score, reverse=True): stable, so equal scores keep the
\* order of cats
RECURSIVE SortedByScore(_, _)
SortedByScore(scores, cats) ==
    IF cats = <<>> THEN <<>>
    ELSE LET first == FirstMax(scores, cats)
             rest  == SelectSeq(cats, LAMBDA c : c # first)
         IN  <<first>> \o SortedByScore(scores, rest)

\* seq[:n] of Python: a negative n counts from the end
SliceTo(seq, n) ==
    IF n >= 0 THEN SubSeq(seq, 1, Min(n, Len(seq)))
    ELSE SubSeq(seq, 1, Max(Len(seq) + n, 0))

get_category_suggestions(complaint_text, top_n) ==
    LET tokens            == preprocess_text(complaint_text)
        scores            == calculate_category_scores(tokens)
        sorted_categories == SortedByScore(scores, Categories)
        total_score       == SumScores(scores)
        top               == SliceTo(sorted_categories, top_n)
    IN  [i \in 1..Len(top) |->
            <<top[i], IF total_score > 0 THEN <<scores[top[i]], total_score>>
                      ELSE <<0, 1>>>>]

(***************************************************************************)
(* sentiment_analyzer.py                                                   *)
(***************************************************************************)
\* urgent_keywords, each as the sequence of its words
urgent_keywords ==
    { <<"urgent">>, <<"immediately">>, <<"asap">>, <<"emergency">>,
      <<"critical">>, <<"serious">>, <<"severe">>, <<"dangerous">>,
      <<"broken">>, <<"not", "working">>, <<"failed">>, <<"unable">>,
      <<"cannot">>, <<"stuck">>, <<"blocked">>, <<"help">>, <<"please">>,
      <<"very">>, <<"extremely">>, <<"terrible">>, <<"worst">>, <<"awful">> }

\* words a complaint text given to the analyzer is made of
UrgentVocabulary == {"URGENT", "not", "working"}

UrgentTexts(n) == UNION {[1..k -> UrgentVocabulary] : k \in 0..n}

\* what TextBlob(text).sentiment can answer: (polarity, subjectivity) in
\* hundredths; <<0, 50>> is also the fallback of lines 43-45
Polarities == {-100, -60, -30, -10, 0, 10, 100}

Subjectivities == {0, 50, 100}

Sentiments == Polarities \X Subjectivities

\* text.lower()
LowerText(text) == [i \in 1..Len(text) |-> Lower(text[i])]

\* len(re.findall(r'\b' + keyword + r'\b', text_lower))
CountMatches(words, keyword) ==
    Cardinality({i \in 1..Len(words) :
        /\ i + Len(keyword) - 1 <= Len(words)
        /\ SubSeq(words, i, i + Len(keyword) - 1) = keyword})

RECURSIVE SumMatches(_, _)
SumMatches(words, keywords) ==
    IF keywords = {} THEN 0
    ELSE LET kw == CHOOSE k \in keywords : TRUE
         IN  CountMatches(words, kw) + SumMatches(words, keywords \ {kw})

detect_urgent_keywords(text) == SumMatches(LowerText(text), urgent_keywords)

\* sentiment is the answer of analyze_sentiment(text) for this text
calculate_urgency_score(text, sentiment) ==
    LET polarity            == sentiment[1]
        subjectivity        == sentiment[2]
        urgent_count        == detect_urgent_keywords(text)
        sentiment_urgency   == Max(0, -polarity)
        keyword_boost       == Min(urgent_count * 15, 50)
        subjectivity_factor == (subjectivity * 20) \div 100
    IN  Min(sentiment_urgency + keyword_boost + subjectivity_factor, 100)

\* the guard of line 102
ValidManualPriority(manual_priority) ==
    Truthy(manual_priority) /\ manual_priority \in {"High", "Medium", "Low"}

\* mutant: the thresholds are compared with > instead of >=
PriorityOfUrgency_Strict(urgency) ==
    IF urgency > 60 THEN "High"
    ELSE IF urgency > 30 THEN "Medium"
    ELSE "Low"

\* lines 108-114
PriorityOfUrgency(urgency) ==
    IF urgency >= 60 THEN "High"
    ELSE IF urgency >= 30 THEN "Medium"
    ELSE "Low"

determine_priority(text, manual_priority, sentiment) ==
    IF ValidManualPriority(manual_priority) THEN manual_priority
    ELSE PriorityOfUrgency(calculate_urgency_score(text, sentiment))

SentimentLabel(polarity) ==
    IF polarity < -10 THEN "negative"
    ELSE IF polarity > 10 THEN "positive"
    ELSE "neutral"

analyze_complaint(text, manual_priority, sentiment) ==
    [ polarity             |-> sentiment[1],
      subjectivity         |-> sentiment[2],
      urgency_score        |-> calculate_urgency_score(text, sentiment),
      priority             |-> determine_priority(text, manual_priority, sentiment),
      urgent_keyword_count |-> detect_urgent_keywords(text),
      sentiment            |-> SentimentLabel(sentiment[1]) ]

(***************************************************************************)
(* predictor.py                                                            *)
(***************************************************************************)
\* mutant: an unrecognized category falls back to the baseline of 'Other'
category_avg_times_DefaultOther(category) ==
    CASE category = "IT Issues"           -> 24
      [] category = "Hostel Management"   -> 48
      [] category = "Academics"           -> 72
      [] category = "Administration"      -> 96
      [] category = "Library"             -> 48
      [] category = "Sports & Recreation" -> 72
      [] OTHER                            -> 120

\* category_avg_times.get(category, 72), in hours
category_avg_times(category) ==
    CASE category = "IT Issues"           -> 24
      [] category = "Hostel Management"   -> 48
      [] category = "Academics"           -> 72
      [] category = "Administration"      -> 96
      [] category = "Library"             -> 48
      [] category = "Sports & Recreation" -> 72
      [] category = "Other"               -> 120
      [] OTHER                            -> 72

\* priority_multipliers.get(priority, 1.0), in tenths
priority_multipliers(priority) ==
    CASE priority = "High"   -> 5
      [] priority = "Medium" -> 10
      [] priority = "Low"    -> 15
      [] OTHER               -> 10

\* category and priority strings given to the predictor; "Canteen" and
\* "Urgent" are not keys of the two tables
PredictorCategories == CategorySet \cup {"Canteen"}

PredictorPriorities == {"High", "Medium", "Low", "Urgent"}

\* random.uniform(0.8, 1.2), in thousandths
Variances == {800 + (400 * k) \div VarianceSteps : k \in 0..VarianceSteps}

\* pending counts given to update_workload_factor
PendingCounts == {-1, 0, 5, 9, 10, 19, 20, 49, 50, 60}

\* round(n / d, 0) of Python for n >= 0, d > 0: ties go to the even integer
RoundHalfEven(n, d) ==
    LET q == n \div d
        r == n % d
    IN  IF 2 * r < d THEN q
        ELSE IF 2 * r > d THEN q + 1
        ELSE IF q % 2 = 0 THEN q ELSE q + 1

\* mutant: workload_factor is left out of the product
TruncatedHours_NoFactor(base_time, priority_mult, factor, variance) ==
    (base_time * priority_mult * 10 * variance) \div 100000

\* int(base_time * priority_mult * workload_factor * variance), lines 65-69;
\* the product is in 1/100000 hours and is not negative
TruncatedHours(base_time, priority_mult, factor, variance) ==
    (base_time * priority_mult * factor * variance) \div 100000

\* mutant: the hours field is given the whole days
predict_resolution_time_HoursAsDays(category, priority, factor, variance) ==
    LET base_time       == category_avg_times(category)
        priority_mult   == priority_multipliers(priority)
        predicted_hours ==
            Max(TruncatedHours(base_time, priority_mult, factor, variance), 1)
    IN  [ hours           |-> predicted_hours \div 24,
          days            |-> RoundHalfEven(predicted_hours * 10, 24),
          category_avg    |-> base_time,
          priority_factor |-> priority_mult,
          confidence      |-> 75 ]

\* factor is self.workload_factor as read at line 65, variance the draw of
\* line 68; days is in tenths
predict_resolution_time(category, priority, factor, variance) ==
    LET base_time       == category_avg_times(category)
        priority_mult   == priority_multipliers(priority)
        predicted_hours ==
            Max(TruncatedHours(base_time, priority_mult, factor, variance), 1)
    IN  [ hours           |-> predicted_hours,
          days            |-> RoundHalfEven(predicted_hours * 10, 24),
          category_avg    |-> base_time,
          priority_factor |-> priority_mult,
          confidence      |-> 75 ]

\* mutant: the bucket limits are compared with <= instead of <
get_resolution_estimate_Inclusive(category, priority, factor, variance) ==
    LET hours == predict_resolution_time(category, priority, factor, variance).hours
    IN  IF hours <= 24 THEN [phrase |-> "Within N hours", N |-> hours]
        ELSE IF hours <= 48 THEN [phrase |-> "1-2 days", N |-> 0]
        ELSE IF hours <= 72 THEN [phrase |-> "2-3 days", N |-> 0]
        ELSE IF hours <= 120 THEN [phrase |-> "3-5 days", N |-> 0]
        ELSE [phrase |-> "N days", N |-> hours \div 24]

\* the returned string: its template and the number formatted into it
get_resolution_estimate(category, priority, factor, variance) ==
    LET hours == predict_resolution_time(category, priority, factor, variance).hours
    IN  IF hours < 24 THEN [phrase |-> "Within N hours", N |-> hours]
        ELSE IF hours < 48 THEN [phrase |-> "1-2 days", N |-> 0]
        ELSE IF hours < 72 THEN [phrase |-> "2-3 days", N |-> 0]
        ELSE IF hours < 120 THEN [phrase |-> "3-5 days", N |-> 0]
        ELSE [phrase |-> "N days", N |-> hours \div 24]

\* mutant: the thresholds are compared with <= instead of <
update_workload_factor_Inclusive(pending_count) ==
    IF pending_count <= 10 THEN 9
    ELSE IF pending_count <= 20 THEN 10
    ELSE IF pending_count <= 50 THEN 12
    ELSE 15

\* the value update_workload_factor assigns, in tenths
update_workload_factor(pending_count) ==
    IF pending_count < 10 THEN 9
    ELSE IF pending_count < 20 THEN 10
    ELSE IF pending_count < 50 THEN 12
    ELSE 15

\* a complaint record; resolution_time is <<>> for None, <<h>> for h hours
HistoryRecords ==
    [ category        : {"IT Issues", "Canteen"},
      status          : {"Resolved", "Pending"},
      resolution_time : {<<>>, <<0>>, <<10>>, <<25>>} ]

Histories(n) == UNION {[1..k -> HistoryRecords] : k \in 0..n}

\* c.get('status') == 'Resolved' and c.get('resolution_time')
IsResolved(c) ==
    /\ c.status = "Resolved"
    /\ c.resolution_time # <<>>
    /\ c.resolution_time[1] # 0

RECURSIVE SumTimes(_)
SumTimes(records) ==
    IF records = <<>> THEN 0
    ELSE Head(records).resolution_time[1] + SumTimes(Tail(records))

\* averages are in tenths: round(avg_time, 1) and round(avg_time / 24, 1)
CategoryStats(complaints_data, category) ==
    LET category_complaints ==
            SelectSeq(complaints_data, LAMBDA c : c.category = category)
        resolved == SelectSeq(category_complaints, IsResolved)
        base     == category_avg_times(category)
    IN  IF category_complaints # <<>>
        THEN [ total_complaints     |-> Len(category_complaints),
               resolved             |-> Len(resolved),
               avg_resolution_hours |->
                   IF resolved # <<>>
                   THEN RoundHalfEven(SumTimes(resolved) * 10, Len(resolved))
                   ELSE base * 10,
               avg_resolution_days  |->
                   IF resolved # <<>>
                   THEN RoundHalfEven(SumTimes(resolved) * 10, Len(resolved) * 24)
                   ELSE RoundHalfEven(base * 10, 24) ]
        ELSE [ total_complaints     |-> 0,
               resolved             |-> 0,
               avg_resolution_hours |-> base * 10,
               avg_resolution_days  |-> RoundHalfEven(base * 10, 24) ]

get_category_statistics(complaints_data) ==
    [category \in CategorySet |-> CategoryStats(complaints_data, category)]

(***************************************************************************)
(* The state machine.  call is the call last made on the three module      *)
(* level instances (categorizer, analyzer, predictor) with the value it    *)
(* returned; the caller takes the value before it makes the next call.     *)
(* last_pending records the argument of the latest update_workload_factor  *)
(* call: <<>> before the first one.                                        *)
(* thread is a caller of predict_resolution_time that runs line by line    *)
(* while another caller updates the workload: its position, its locals,    *)
(* the number of times it has read workload_factor and the values          *)
(* workload_factor has held since its call began.                          *)
(***************************************************************************)
NoCall == [op |-> "idle"]

NoThread == [pc |-> "idle"]

ManualCategories == CategorySet \cup {None, "", "Canteen", "it issues"}

ManualPriorities == {None, "", "High", "Medium", "Low", "high"}

Init ==
    /\ workload_factor = 10
    /\ last_pending = <<>>
    /\ call = NoCall
    /\ thread = NoThread

Categorize ==
    /\ call = NoCall
    /\ \E text \in Texts(MaxWords), manual \in ManualCategories :
        call' = [ op |-> "categorize", text |-> text, manual |-> manual,
                  result |-> categorize(text, manual) ]
    /\ UNCHANGED <<workload_factor, last_pending, thread>>

Suggest ==
    /\ call = NoCall
    /\ \E text \in Texts(MaxWords), top_n \in -MaxTopN..MaxTopN :
        call' = [ op |-> "get_category_suggestions", text |-> text,
                  top_n |-> top_n,
                  result |-> get_category_suggestions(text, top_n) ]
    /\ UNCHANGED <<workload_factor, last_pending, thread>>

Analyze ==
    /\ call = NoCall
    /\ \E text \in UrgentTexts(MaxUrgentWords), manual \in ManualPriorities,
          sentiment \in Sentiments :
        call' = [ op |-> "analyze_complaint", text |-> text, manual |-> manual,
                  result |-> analyze_complaint(text, manual, sentiment) ]
    /\ UNCHANGED <<workload_factor, last_pending, thread>>

Predict ==
    /\ call = NoCall
    /\ \E category \in PredictorCategories, priority \in PredictorPriorities,
          variance \in Variances :
        call' = [ op |-> "predict_resolution_time", category |-> category,
                  priority |-> priority, variance |-> variance,
                  result |-> predict_resolution_time(category, priority,
                                                     workload_factor, variance) ]
    /\ UNCHANGED <<workload_factor, last_pending, thread>>

Estimate ==
    /\ call = NoCall
    /\ \E category \in PredictorCategories, priority \in PredictorPriorities,
          variance \in Variances :
        call' = [ op |-> "get_resolution_estimate", category |-> category,
                  priority |-> priority, variance |-> variance,
                  result |-> get_resolution_estimate(category, priority,
                                                     workload_factor, variance) ]
    /\ UNCHANGED <<workload_factor, last_pending, thread>>

UpdateWorkload ==
    /\ call = NoCall
    /\ \E pending_count \in PendingCounts :
        /\ workload_factor' = update_workload_factor(pending_count)
        /\ last_pending' = <<pending_count>>
        /\ call' = [ op |-> "update_workload_factor",
                     pending_count |-> pending_count, result |-> None ]
    /\ UNCHANGED thread

Statistics ==
    /\ call = NoCall
    /\ \E complaints_data \in Histories(MaxHistory) :
        call' = [ op |-> "get_category_statistics",
                  complaints_data |-> complaints_data,
                  result |-> get_category_statistics(complaints_data) ]
    /\ UNCHANGED <<workload_factor, last_pending, thread>>

\* the caller has taken the returned value
Return ==
    /\ call # NoCall
    /\ call' = NoCall
    /\ UNCHANGED <<workload_factor, last_pending, thread>>

\* mutant: the factor is the one captured when the predictor was constructed
LoadWorkloadFactor_Initial(current) == 10

\* the attribute load self.workload_factor of line 65: the interpreter hands
\* out the object the attribute refers to at that instant
LoadWorkloadFactor(current) == current

\* predict_resolution_time is entered
PredictCall ==
    /\ call = NoCall
    /\ thread = NoThread
    /\ \E category \in PredictorCategories, priority \in PredictorPriorities :
        thread' = [ pc |-> "line59", category |-> category,
                    priority |-> priority, reads |-> 0,
                    held |-> {workload_factor} ]
    /\ UNCHANGED <<workload_factor, last_pending, call>>

\* lines 59-62: the two table lookups (the tables are never written)
PredictLookups ==
    /\ thread.pc = "line59"
    /\ thread' = [ pc |-> "line65", category |-> thread.category,
                   priority |-> thread.priority, reads |-> thread.reads,
                   held |-> thread.held,
                   base_time |-> category_avg_times(thread.category),
                   priority_mult |-> priority_multipliers(thread.priority) ]
    /\ UNCHANGED <<workload_factor, last_pending, call>>

\* line 65: the only read of self.workload_factor
PredictReadFactor ==
    /\ thread.pc = "line65"
    /\ thread' = [ pc |-> "line68", category |-> thread.category,
                   priority |-> thread.priority, reads |-> thread.reads + 1,
                   held |-> thread.held,
                   factor |-> LoadWorkloadFactor(workload_factor) ]
    /\ UNCHANGED <<workload_factor, last_pending, call>>

\* lines 68-83: the variance draw, the truncation and the returned dict
PredictFinish ==
    /\ thread.pc = "line68"
    /\ \E variance \in Variances :
        thread' = [ pc |-> "done", category |-> thread.category,
                    priority |-> thread.priority, reads |-> thread.reads,
                    held |-> thread.held, factor |-> thread.factor,
                    variance |-> variance,
                    result |-> predict_resolution_time(thread.category,
                                   thread.priority, thread.factor, variance) ]
    /\ UNCHANGED <<workload_factor, last_pending, call>>

\* the caller has taken the prediction
PredictTaken ==
    /\ thread.pc = "done"
    /\ thread' = NoThread
    /\ UNCHANGED <<workload_factor, last_pending, call>>

\* update_workload_factor run by another caller: one attribute store
ConcurrentUpdate ==
    /\ call = NoCall
    /\ \E pending_count \in PendingCounts :
        /\ workload_factor' = update_workload_factor(pending_count)
        /\ last_pending' = <<pending_count>>
        /\ thread' = IF thread = NoThread THEN thread
                     ELSE [thread EXCEPT !.held =
                              @ \cup {update_workload_factor(pending_count)}]
    /\ UNCHANGED call

NextConcurrent ==
    \/ PredictCall \/ PredictLookups \/ PredictReadFactor \/ PredictFinish
    \/ PredictTaken \/ ConcurrentUpdate

NextTriage == Categorize \/ Suggest \/ Analyze \/ Return

NextPredictor == Predict \/ Estimate \/ UpdateWorkload \/ Statistics \/ Return

Next == NextTriage \/ NextPredictor \/ NextConcurrent

\* the categorizer and the analyzer: neither reads nor writes workload_factor
SpecTriage == Init /\ [][NextTriage]_vars

\* the predictor
SpecPredictor == Init /\ [][NextPredictor]_vars

\* a prediction interleaved with workload updates of another caller
SpecConcurrent == Init /\ [][NextConcurrent]_vars

Spec == Init /\ [][Next]_vars

(***************************************************************************)
(* Properties.                                                             *)
(***************************************************************************)
\* the match counts of a text, and what the claims say about them
ScoresOf(text) == calculate_category_scores(preprocess_text(text))

\* position of a category in the declaration order
Position(c) == CHOOSE i \in 1..Len(Categories) : Categories[i] = c

\* no normalized token of the text is a stemmed keyword of any category
NoKeywordMatch(text) ==
    LET tokens == preprocess_text(text)
    IN  \A i \in 1..Len(tokens) :
            \A c \in CategorySet : tokens[i] \notin stemmed_keywords(c)

\* C1: categorize with a manual_category that is one of the seven categories
\* returns exactly (manual_category, 0.95), whatever the text matches.
C1_ManualOverride ==
    (call.op = "categorize" /\ call.manual \in CategorySet)
        => call.result = <<call.manual, <<95, 100>>>>

\* a text matching IT Issues twice, categorized with manual category Library
C1_Witness ==
    /\ call.op = "categorize"
    /\ call.text = <<"WiFi", "WiFi">>
    /\ call.manual = "Library"
    /\ call.result = <<"Library", <<95, 100>>>>

\* C2: categorize(text, None) returns ("Other", 0.5) when no normalized token
\* matches a stemmed keyword, and returns "Other" only then.
C2_OtherIffNoMatch ==
    (call.op = "categorize" /\ call.manual = None)
        => /\ NoKeywordMatch(call.text) => call.result = <<"Other", <<1, 2>>>>
           /\ call.result[1] = "Other" => NoKeywordMatch(call.text)

\* a text whose words are a stop word, a short word and a non-keyword
C2_Witness ==
    /\ call.op = "categorize"
    /\ call.manual = None
    /\ call.text = <<"the", "pc", "banana">>
    /\ call.result = <<"Other", <<1, 2>>>>

\* C3: with a keyword match and no manual override the confidence is
\* (maximum count) / (sum of counts), replaced by 0.99 when that exceeds 0.99;
\* every confidence categorize returns lies in [0, 0.99].
C3_Confidence ==
    call.op = "categorize"
        => LET scores == ScoresOf(call.text)
               m      == MaxScore(scores)
               total  == SumScores(scores)
               conf   == call.result[2]
           IN  /\ RatLeq(<<0, 1>>, conf)
               /\ RatLeq(conf, <<99, 100>>)
               /\ (call.manual = None /\ m > 0)
                    => IF 100 * m > 99 * total
                       THEN RatEq(conf, <<99, 100>>)
                       ELSE RatEq(conf, <<m, total>>)

\* one category matches (1/1 is replaced by 0.99)
C3_Witness ==
    /\ call.op = "categorize"
    /\ call.manual = None
    /\ call.text = <<"the", "exams">>
    /\ call.result = <<"Academics", <<99, 100>>>>

\* C4: when several categories share the maximum non-zero count,
\* categorize(text, None) returns the first of them in declaration order.
C4_TieBreak ==
    (call.op = "categorize" /\ call.manual = None
        /\ MaxScore(ScoresOf(call.text)) > 0)
        => LET scores == ScoresOf(call.text)
               m      == MaxScore(scores)
           IN  /\ scores[call.result[1]] = m
               /\ \A c \in CategorySet :
                      scores[c] = m => Position(call.result[1]) <= Position(c)

\* Library and Hostel Management match once each, Library first in the text
C4_Witness ==
    /\ call.op = "categorize"
    /\ call.manual = None
    /\ call.text = <<"Library", "hostel">>
    /\ call.result[1] = "Hostel Management"

RECURSIVE SumConfidences(_)
SumConfidences(suggestions) ==
    IF suggestions = <<>> THEN <<0, 1>>
    ELSE RatAdd(Head(suggestions)[2], SumConfidences(Tail(suggestions)))

\* C5: get_category_suggestions(text, top_n) returns at most top_n entries,
\* for every integer top_n (0 and negative values included), in non-increasing
\* order of raw match count, with confidences summing to at most 1.
C5_Suggestions ==
    call.op = "get_category_suggestions"
        => LET scores == ScoresOf(call.text)
               res    == call.result
           IN  /\ Len(res) <= call.top_n
               /\ \A i \in 1..Len(res) - 1 :
                      scores[res[i][1]] >= scores[res[i + 1][1]]
               /\ RatLeq(SumConfidences(res), <<1, 1>>)

\* C6: the urgency_score is min(max(0, -polarity) + min(count * 0.15, 0.5)
\* + subjectivity * 0.2, 1.0) and lies in [0, 1]; with no manual override the
\* priority of the same result is High exactly when it is >= 0.6, Medium
\* exactly when it is in [0.3, 0.6), Low otherwise.
C6_UrgencyAndPriority ==
    call.op = "analyze_complaint"
        => LET r == call.result
               u == r.urgency_score
           IN  /\ u = Min(Max(0, -r.polarity)
                          + Min(r.urgent_keyword_count * 15, 50)
                          + (r.subjectivity * 20) \div 100, 100)
               /\ 0 <= u /\ u <= 100
               /\ call.manual = None
                    => /\ r.priority = "High" <=> u >= 60
                       /\ r.priority = "Medium" <=> (30 <= u /\ u < 60)
                       /\ r.priority = "Low" <=> u < 30

\* polarity -0.6 alone puts the urgency on the High threshold
C6_Witness ==
    /\ call.op = "analyze_complaint"
    /\ call.manual = None
    /\ call.text = <<"working">>
    /\ call.result.polarity = -60
    /\ call.result.subjectivity = 0
    /\ call.result.urgency_score = 60
    /\ call.result.priority = "High"

\* C7: a manual override that is not in the fixed set is treated as absent:
\* categorize(text, m) = categorize(text, None) for m not a category, and
\* analyze_complaint(text, p) = analyze_complaint(text, None) for p not a
\* priority level.
C7_InvalidOverrideIgnored ==
    /\ (call.op = "categorize" /\ call.manual \notin CategorySet)
         => call.result = categorize(call.text, None)
    /\ (call.op = "analyze_complaint"
            /\ call.manual \notin {"High", "Medium", "Low"})
         => call.result =
                analyze_complaint(call.text, None,
                    <<call.result.polarity, call.result.subjectivity>>)

\* a category name in the wrong case, on a text that matches a category
C7_Witness ==
    /\ call.op = "categorize"
    /\ call.manual = "it issues"
    /\ call.text = <<"hostel">>
    /\ call.result = <<"Hostel Management", <<99, 100>>>>

\* C8: whatever update_workload_factor calls came before, and for every
\* category, priority and variance draw, predict_resolution_time returns an
\* integer number of hours >= 1.
C8_HoursAtLeastOne ==
    call.op = "predict_resolution_time"
        => call.result.hours \in Nat /\ call.result.hours >= 1

\* the shortest prediction: IT Issues, High, factor 0.9, variance 0.8
C8_Witness ==
    /\ call.op = "predict_resolution_time"
    /\ last_pending = <<-1>>
    /\ call.category = "IT Issues"
    /\ call.priority = "High"
    /\ call.variance = 800
    /\ call.result.hours = 8

\* C9 as stated: after update_workload_factor has set the factor f,
\* predict_resolution_time returns hours within
\* [base * mult * f * 0.8, base * mult * f * 1.2].
C9_HoursInBand ==
    (call.op = "predict_resolution_time" /\ last_pending # <<>>)
        => LET product == category_avg_times(call.category)
                          * priority_multipliers(call.priority)
                          * workload_factor
           IN  /\ product * 800 <= call.result.hours * 100000
               /\ call.result.hours * 100000 <= product * 1200

\* C9 as amended: after update_workload_factor(n) has set the factor f
\* (n = 5 gives 0.9, n = 60 gives 1.5), predict_resolution_time returns hours
\* within [floor(base * mult * f * 0.8), base * mult * f * 1.2]: the lower
\* end of the band is truncated to whole hours, as the prediction is.
C9_HoursInTruncatedBand ==
    /\ last_pending = <<5>> => workload_factor = 9
    /\ last_pending = <<60>> => workload_factor = 15
    /\ (call.op = "predict_resolution_time" /\ last_pending # <<>>)
        => LET product == category_avg_times(call.category)
                          * priority_multipliers(call.priority)
                          * workload_factor
           IN  /\ (product * 800) \div 100000 <= call.result.hours
               /\ call.result.hours * 100000 <= product * 1200

\* 24 * 0.5 * 1.5 * 0.8 = 14.4 is returned as 14 hours
C9_Witness ==
    /\ call.op = "predict_resolution_time"
    /\ last_pending = <<60>>
    /\ workload_factor = 15
    /\ call.category = "IT Issues"
    /\ call.priority = "High"
    /\ call.variance = 800
    /\ call.result.hours = 14

\* C10: workload_factor is 1.0 until update_workload_factor is called, and
\* afterwards the step value of the latest pending_count (< 10 gives 0.9,
\* < 20 gives 1.0, < 50 gives 1.2, else 1.5), whatever other calls were made.
C10_WorkloadFactor ==
    workload_factor =
        IF last_pending = <<>> THEN 10
        ELSE LET n == last_pending[1]
             IN  CASE n < 10 -> 9
                   [] n >= 10 /\ n < 20 -> 10
                   [] n >= 20 /\ n < 50 -> 12
                   [] OTHER -> 15

\* a negative count was given, then get_category_statistics was called
C10_Witness ==
    /\ last_pending = <<-1>>
    /\ workload_factor = 9
    /\ call.op = "get_category_statistics"

\* C11: when predict_resolution_time runs concurrently with
\* update_workload_factor, the prediction is computed with a value
\* workload_factor held during the call (the one before an update or the one
\* after it), and workload_factor is read exactly once per prediction.
C11_OldOrNewFactor ==
    /\ thread.pc \in {"line59", "line65"} => thread.reads = 0
    /\ thread.pc \in {"line68", "done"}
         => /\ thread.reads = 1
            /\ thread.factor \in thread.held
    /\ thread.pc = "done"
         => thread.result =
                predict_resolution_time(thread.category, thread.priority,
                                        thread.factor, thread.variance)

\* the factor was read as 1.5, then another caller set it to 0.9
C11_Witness ==
    /\ thread.pc = "done"
    /\ thread.held = {10, 15, 9}
    /\ thread.factor = 15
    /\ workload_factor = 9
    /\ thread.reads = 1
    /\ thread.category = "Other"
    /\ thread.priority = "Low"
    /\ thread.variance = 1200
    /\ thread.result.hours = 324

\* C12: predict_resolution_time computes an unrecognized category with base
\* 72 and reports category_avg 72, computes an unrecognized priority with
\* multiplier 1.0 and reports priority_factor 1.0, and leaves workload_factor
\* unchanged.
C12_UnrecognizedInputs ==
    /\ [](call.op = "predict_resolution_time"
            => LET r    == call.result
                   base == IF call.category \in CategorySet
                           THEN r.category_avg ELSE 72
                   mult == IF call.priority \in {"High", "Medium", "Low"}
                           THEN r.priority_factor ELSE 10
               IN  /\ r.category_avg = base
                   /\ r.priority_factor = mult
                   /\ r.hours = Max((base * mult * workload_factor
                                     * call.variance) \div 100000, 1))
    /\ [][call'.op = "predict_resolution_time"
            => workload_factor' = workload_factor]_vars

\* neither the category nor the priority is recognized, factor 1.2
C12_Witness ==
    /\ call.op = "predict_resolution_time"
    /\ call.category = "Canteen"
    /\ call.priority = "Urgent"
    /\ call.variance = 1000
    /\ workload_factor = 12
    /\ call.result.category_avg = 72
    /\ call.result.priority_factor = 10
    /\ call.result.hours = 86

\* the records of a category with status "Resolved" and a recorded time
RecordedResolved(complaints_data, category) ==
    SelectSeq(complaints_data,
              LAMBDA c : /\ c.category = category
                         /\ c.status = "Resolved"
                         /\ c.resolution_time # <<>>)

\* C13: get_category_statistics returns an entry for each of the seven
\* categories and no other key; the resolved count of a category is the
\* number of its records with status "Resolved" and a recorded resolution
\* time (0 hours included), the average is the mean time of exactly those
\* records, and the baseline is reported only when there is none.
C13_Statistics ==
    call.op = "get_category_statistics"
        => /\ DOMAIN call.result = CategorySet
           /\ \A c \in CategorySet :
                LET recs == RecordedResolved(call.complaints_data, c)
                    st   == call.result[c]
                IN  /\ st.resolved = Len(recs)
                    /\ st.avg_resolution_hours =
                         IF recs # <<>>
                         THEN RoundHalfEven(SumTimes(recs) * 10, Len(recs))
                         ELSE category_avg_times(c) * 10

\* the bucket of an hours value h >= 1, as the claim lists them
BucketsOf(h) ==
    { b \in {"Within N hours", "1-2 days", "2-3 days", "3-5 days", "N days"} :
        \/ b = "Within N hours" /\ h < 24
        \/ b = "1-2 days" /\ 24 <= h /\ h < 48
        \/ b = "2-3 days" /\ 48 <= h /\ h < 72
        \/ b = "3-5 days" /\ 72 <= h /\ h < 120
        \/ b = "N days" /\ h >= 120 }

\* C14: get_resolution_estimate returns the phrase of the bucket of the hours
\* h that predict_resolution_time returns for the same category, priority,
\* workload_factor and variance draw: "Within h hours", "1-2 days",
\* "2-3 days", "3-5 days" or "N days" with N = h / 24 truncated; h lies in
\* exactly one bucket.
C14_EstimateBuckets ==
    call.op = "get_resolution_estimate"
        => LET h == predict_resolution_time(call.category, call.priority,
                        workload_factor, call.variance).hours
           IN  /\ h >= 1
               /\ BucketsOf(h) = {call.result.phrase}
               /\ call.result.N =
                    CASE call.result.phrase = "Within N hours" -> h
                      [] call.result.phrase = "N days" -> h \div 24
                      [] OTHER -> 0

\* exactly 24 hours is "1-2 days"
C14_Witness ==
    /\ call.op = "get_resolution_estimate"
    /\ call.category = "IT Issues"
    /\ call.priority = "Medium"
    /\ call.variance = 1000
    /\ workload_factor = 10
    /\ call.result = [phrase |-> "1-2 days", N |-> 0]

\* C15: for a text with a keyword match and top_n >= 1 the first entry of
\* get_category_suggestions names the category categorize(text, None)
\* returns, with the same confidence, except that categorize caps it at 0.99
\* where the suggestion may be up to 1.0.
C15_SuggestionAgreesWithCategorize ==
    (call.op = "get_category_suggestions" /\ call.top_n >= 1
        /\ MaxScore(ScoresOf(call.text)) > 0)
        => LET first == call.result[1]
               cat   == categorize(call.text, None)
           IN  /\ Len(call.result) >= 1
               /\ first[1] = cat[1]
               /\ RatLeq(first[2], <<1, 1>>)
               /\ IF RatLeq(first[2], <<99, 100>>)
                  THEN RatEq(cat[2], first[2])
                  ELSE RatEq(cat[2], <<99, 100>>)

\* a tie between Library and Hostel Management
C15_Witness ==
    /\ call.op = "get_category_suggestions"
    /\ call.top_n = 1
    /\ call.text = <<"Library", "hostel">>
    /\ call.result = << <<"Hostel Management", <<1, 2>>>> >>

====
